---- MODULE Spec2Model ----
(***************************************************************************)
(* KeyBridgeClient (src/dev/key-bridge/KeyBridgeClient.ts): the batched    *)
(* remote-call client.  One client object, one cooperative thread: every   *)
(* action below is one synchronous run of a handler, from its entry (or    *)
(* from the point where an awaited HTTP post returns) up to its next await *)
(* or its end.                                                             *)
(*                                                                         *)
(* Strings are sequences of one-character strings, so that trim() is       *)
(* computed.  JS null in connection.key is the empty sequence NoKey (the   *)
(* code never stores an empty string there).  An optional number is a      *)
(* sequence of length at most one.  A request is identified by the         *)
(* requestKey generateRequestKey gave it: the n-th generated key is n.     *)
(*                                                                         *)
(* The server is the environment.  It may answer a round with any lists    *)
(* of results and created acknowledgments, may leave calls out of them,    *)
(* and may fail in any way; it is assumed to name a requestKey at most     *)
(* once in each list of one response.                                      *)
(***************************************************************************)
EXTENDS Integers, Sequences, FiniteSets, Bags, TLC

\* ---------------------------------------------------------------- bounds
MaxOps == 3        \* calls of setKey and executeOrFallback in a behaviour
MaxResults == 1    \* entries in a response's results list

\* ------------------------------------------------------ program constants
InitialPollRate == 500
MinPollRate == 500
MaxPollRate == 10000
RetryCap == 2000

\* ------------------------------------------------------------ vocabulary
NoKey == <<>>
NoError == "null"
MsgKeyNotFound == "KEY_NOT_FOUND"
MsgSessionDefault == "Session not found. Create key again."
MsgReset == "Connection reset"
MsgEnqueue == "Failed to enqueue request"
MsgExecution == "Execution failed"
Resolved == "resolved"

Reqs == 1..MaxOps

\* Raw arguments of setKey: null, a blank string, " a ".
KeyArgs ==
    { [isNull |-> TRUE,  s |-> <<>>],
      [isNull |-> FALSE, s |-> <<" ">>],
      [isNull |-> FALSE, s |-> <<" ", "a", " ">>] }

\* intervalMs values a server response carries (<<>>: field absent).
IntervalArgs == { <<>>, <<0>>, <<1000>> }
NoInterval == { <<>> }
\* intervalMs values outside [500, 10000]: negative, zero, very large
ExtremeIntervals == { <<>>, <<-5>>, <<0>>, <<50000>> }

\* The errors the try block around an HTTP post catches: an axios error
\* with a response (a status and maybe response.data.message), or an error
\* without one (a timeout, or the Error validateInitResponse throws).
\* (AxiosErrorResponseType: response <<>> when the error has no response,
\* else <<[status, message]>>, message being response.data?.message.)
Failures ==
    { [response |-> << [status |-> 404, message |-> <<"gone">>] >>, text |-> "Request failed with status code 404"],
      [response |-> << [status |-> 404, message |-> <<>>] >>,       text |-> "Request failed with status code 404"],
      [response |-> << [status |-> 500, message |-> <<>>] >>,       text |-> "Request failed with status code 500"],
      [response |-> << [status |-> 502, message |-> <<>>] >>,       text |-> "Request failed with status code 502"],
      [response |-> <<>>,                                           text |-> "timeout exceeded"],
      [response |-> <<>>,                                           text |-> "Unrecognized response format"] }

\* one failure of each kind the handlers tell apart
MainFailures ==
    { f \in Failures :
        IF f.response = <<>> THEN f.text = "timeout exceeded"
        ELSE f.response[1].message # <<>> \/ f.response[1].status = 500 }

\* the post times out
Timeouts == { f \in Failures : f.text = "timeout exceeded" }

\* ------------------------------------------------------------- variables
VARIABLES
    key,         \* connection.key
    pollRate,    \* connection.pollRate
    broken,      \* connection.broken
    pending,     \* queues.pending (its requestKeys)
    active,      \* queues.active (its requestKeys)
    completed,   \* queues.completed
    processing,  \* state.processing
    error,       \* state.error
    rounds,      \* bag of processBatch calls awaiting their post
    inits,       \* setKey calls awaiting the init post
    timers,      \* number of armed setTimeout(() => processIfNeeded())
    lastDelay,   \* delay argument of the latest setTimeout call (0: none yet)
    notified,    \* the state notifyStateChange delivered last to a listener
    nextKey,     \* number of request keys generated so far
    fallbacks,   \* number of fallback() invocations so far
    epoch,       \* number of setKey calls so far
    stale,       \* the requests submitted before the latest setKey call
    settles      \* per request: the resolve/reject invocations, in order

\* The private helpers of the client are also exercised on their own, each
\* under a specification of its own (KeySpec, ValidateSpec, ParseSpec below)
\* that holds the client's fields still.
VARIABLES
    clock,        \* Date.now()
    issued,       \* the requestKey generateRequestKey returned to each submit, in order
    pendingMap,   \* queues.pending as a Map: requestKey -> the request stored under it
    body,         \* the argument of validateInitResponse
    validated,    \* what validateInitResponse did with it (<<>>: not yet called)
    rawResult,    \* the argument of parseResult
    parsedResult  \* what parseResult returned for it (<<>>: not yet called)

clientVars == << key, pollRate, broken, pending, active, completed, processing,
                 error, rounds, inits, timers, lastDelay, notified, nextKey,
                 fallbacks, epoch, stale, settles >>

helperVars == << clock, issued, pendingMap, body, validated, rawResult,
                 parsedResult >>

vars == << key, pollRate, broken, pending, active, completed, processing,
           error, rounds, inits, timers, lastDelay, notified, nextKey,
           fallbacks, epoch, stale, settles, clock, issued, pendingMap, body,
           validated, rawResult, parsedResult >>

\* the behaviour has calls left
OpsLeft == epoch + nextKey + fallbacks < MaxOps

\* ---------------------------------------------------------- pure helpers
Max(a, b) == IF a >= b THEN a ELSE b
\* (variant: the first argument is returned whatever the second is)
MinFirst(a, b) == a

Min(a, b) == IF a <= b THEN a ELSE b

IsSpace(c) == c = " "

RECURSIVE TrimStart(_)
TrimStart(s) ==
    IF s # <<>> /\ IsSpace(Head(s)) THEN TrimStart(Tail(s)) ELSE s

RECURSIVE TrimEnd(_)
TrimEnd(s) ==
    IF s # <<>> /\ IsSpace(s[Len(s)]) THEN TrimEnd(SubSeq(s, 1, Len(s) - 1)) ELSE s

Trim(s) == TrimEnd(TrimStart(s))

\* (key || '').trim() || null
NormalizeKey(arg) == IF arg.isNull THEN NoKey ELSE Trim(arg.s)

\* (variant: no upper limit)
ClampNoCeiling(v) == Max(MinPollRate, v)

\* Math.max(500, Math.min(10000, v))
Clamp(v) == Max(MinPollRate, Min(MaxPollRate, v))

\* getErrorMessage on the error a failed post (or validation) throws
getErrorMessage(f) == f.text

\* getState().connected
Connected == ~broken /\ key # NoKey

\* the isConnected getter
isConnected == ~broken /\ key # NoKey /\ error = NoError

\* req.reject / req.resolve: one more invocation recorded for each request of rs
Settle(st, rs, how) ==
    [r \in Reqs |-> IF r \in rs THEN Append(st[r], how) ELSE st[r]]

\* getState() of a client with the given fields
StateOf(k, b, proc, err, rate, p, a, c) ==
    [ connected |-> ~b /\ k # NoKey,
      processing |-> proc,
      error |-> err,
      pollRate |-> rate,
      queues |-> [ pending |-> Cardinality(p),
                   active |-> Cardinality(a),
                   completed |-> Cardinality(c) ] ]

getState ==
    StateOf(key, broken, processing, error, pollRate, pending, active, completed)

ClientInit ==
    /\ key = NoKey
    /\ pollRate = InitialPollRate
    /\ broken = FALSE
    /\ pending = {}
    /\ active = {}
    /\ completed = {}
    /\ processing = FALSE
    /\ error = NoError
    /\ rounds = EmptyBag
    /\ inits = {}
    /\ timers = 0
    /\ lastDelay = 0
    /\ notified = StateOf(NoKey, FALSE, FALSE, NoError, InitialPollRate, {}, {}, {})
    /\ nextKey = 0
    /\ fallbacks = 0
    /\ epoch = 0
    /\ stale = {}
    /\ settles = [r \in Reqs |-> <<>>]

\* the helpers have not been called
HelpersIdle ==
    /\ clock = 0
    /\ issued = <<>>
    /\ pendingMap = <<>>
    /\ body = <<>>
    /\ validated = <<>>
    /\ rawResult = <<>>
    /\ parsedResult = <<>>

Init == ClientInit /\ HelpersIdle

\* axiosError.response?.status === n
HasStatus(f, n) == f.response # <<>> /\ f.response[1].status = n

\* (variant: the message of the response body is ignored)
SessionMessageDefault(f) == MsgSessionDefault

\* axiosError.response.data?.message || 'Session not found. Create key again.'
SessionMessage(f) ==
    IF f.response[1].message # <<>> THEN f.response[1].message[1] ELSE MsgSessionDefault

\* ------------------------------------------------------------ resetState
\* (variant: the requests of pending are rejected a second time)
resetSettlesTwice(p, a, st) == Settle(Settle(Settle(st, p, MsgReset), a, MsgReset), p, MsgReset)

\* [...pending.values(), ...active.values()].forEach(req => req.reject(...))
resetSettles(p, a, st) == Settle(Settle(st, p, MsgReset), a, MsgReset)

\* ------------------------------------------- processIfNeeded/processBatch
\* (variant: completed keys alone are no work)
hasWorkNoCompleted(p, a, c) == p # {} \/ a # {}

hasWork(p, a, c) == p # {} \/ a # {} \/ c # {}

\* (variant: no snapshot of the calls is kept for the continuation)
NewRoundNoSnapshot(p) ==
    [ payload |-> [ key |-> key,
                    completedKeys |-> completed,
                    statusRequestKeys |-> active,
                    calls |-> p ],
      batchToSend |-> {},
      completedSnapshot |-> completed,
      sentEpoch |-> epoch,
      keysBefore |-> IF nextKey + 1 \in p THEN nextKey + 1 ELSE nextKey,
      alone |-> rounds = EmptyBag ]

\* What processBatch posts and keeps for the continuation of its await,
\* given the live pending map p.  The last three fields are not program
\* state.  sentEpoch: the number of setKey calls made when the round began;
\* keysBefore: the number of request keys generated when it began (a submit
\* that starts the round has generated its key, which is in p); alone: no
\* other round was in flight when it began.
NewRound(p) ==
    [ payload |-> [ key |-> key,
                    completedKeys |-> completed,
                    statusRequestKeys |-> active,
                    calls |-> p ],
      batchToSend |-> p,
      completedSnapshot |-> completed,
      sentEpoch |-> epoch,
      keysBefore |-> IF nextKey + 1 \in p THEN nextKey + 1 ELSE nextKey,
      alone |-> rounds = EmptyBag ]

\* (variant: the live completed set is not cleared when the round is sent)
processBatchKeepsCompleted(p) ==
    IF broken \/ key = NoKey
    THEN /\ pending' = p
         /\ processing' = FALSE
         /\ UNCHANGED << completed, rounds >>
    ELSE /\ rounds' = rounds (+) SetToBag({NewRound(p)})
         /\ pending' = {}
         /\ completed' = completed
         /\ processing' = TRUE

\* (variant: the live pending map is not cleared when the round is sent)
processBatchKeepsPending(p) ==
    IF broken \/ key = NoKey
    THEN /\ pending' = p
         /\ processing' = FALSE
         /\ UNCHANGED << completed, rounds >>
    ELSE /\ rounds' = rounds (+) SetToBag({NewRound(p)})
         /\ pending' = p
         /\ completed' = {}
         /\ processing' = TRUE

\* processBatch up to its await, entered with processing already set
processBatch(p) ==
    IF broken \/ key = NoKey
    THEN /\ pending' = p
         /\ processing' = FALSE
         /\ UNCHANGED << completed, rounds >>
    ELSE /\ rounds' = rounds (+) SetToBag({NewRound(p)})
         /\ pending' = {}
         /\ completed' = {}
         /\ processing' = TRUE

\* processIfNeeded, called when the live pending map is p, passes its guards
Proceeds(p) ==
    ~(broken \/ processing \/ key = NoKey \/ ~hasWork(p, active, completed))

\* processIfNeeded, called when the live pending map is p and key, broken,
\* active, completed, processing have their unprimed values
processIfNeeded(p) ==
    IF broken \/ processing \/ key = NoKey \/ ~hasWork(p, active, completed)
    THEN /\ pending' = p
         /\ UNCHANGED << completed, processing, rounds >>
    ELSE processBatch(p)

\* ---------------------------------------------------------------- setKey
setKey(arg) ==
    /\ OpsLeft
    /\ epoch' = epoch + 1
    /\ broken' = FALSE
    /\ error' = NoError
    /\ settles' = resetSettles(pending, active, settles)
    /\ pending' = {}
    /\ active' = {}
    /\ completed' = {}
    /\ processing' = FALSE
    /\ key' = NormalizeKey(arg)
    /\ inits' = IF NormalizeKey(arg) = NoKey
                THEN inits
                ELSE inits \cup { [call |-> epoch + 1, key |-> NormalizeKey(arg)] }
    /\ stale' = 1..nextKey
    \* resetState notifies before the new key is stored; setKey notifies
    \* again before it returns only when the new key is null
    /\ notified' = IF NormalizeKey(arg) = NoKey
                   THEN StateOf(NoKey, FALSE, FALSE, NoError, pollRate, {}, {}, {})
                   ELSE StateOf(key, FALSE, FALSE, NoError, pollRate, {}, {}, {})
    /\ UNCHANGED << pollRate, rounds, timers, lastDelay, nextKey, fallbacks >>

\* ----------------------------------------------------- executeOrFallback
\* (variant: the guard tests broken only, not the key)
executeOrFallbackBrokenOnly ==
    IF broken
    THEN /\ OpsLeft
         /\ fallbacks' = fallbacks + 1
         /\ UNCHANGED << key, pollRate, broken, pending, active, completed,
                         processing, error, rounds, inits, timers, lastDelay,
                         notified, nextKey, epoch, stale, settles >>
    ELSE /\ OpsLeft
         /\ nextKey' = nextKey + 1
         /\ pending' = pending \cup {nextKey + 1}
         /\ notified' = StateOf(key, broken, processing, error, pollRate,
                                pending \cup {nextKey + 1}, active, completed)
         /\ UNCHANGED << key, pollRate, broken, active, completed, processing,
                         error, rounds, inits, timers, lastDelay, fallbacks,
                         epoch, stale, settles >>

executeOrFallback ==
    IF broken \/ key = NoKey
    THEN /\ OpsLeft
         /\ fallbacks' = fallbacks + 1
         /\ UNCHANGED << key, pollRate, broken, pending, active, completed,
                         processing, error, rounds, inits, timers, lastDelay,
                         notified, nextKey, epoch, stale, settles >>
    ELSE /\ OpsLeft
         /\ nextKey' = nextKey + 1
         /\ processIfNeeded(pending \cup {nextKey + 1})
         \* notified after pending.set, and by processIfNeeded after it
         \* has set processing
         /\ notified' = StateOf(key, broken, processing \/ Proceeds(pending \cup {nextKey + 1}),
                                error, pollRate,
                                pending \cup {nextKey + 1}, active, completed)
         /\ UNCHANGED << key, pollRate, broken, active, error, inits,
                         timers, lastDelay, fallbacks, epoch, stale, settles >>

\* A timer armed by processBatch or handleBatchError fires.
timerFires ==
    /\ timers > 0
    /\ timers' = timers - 1
    /\ processIfNeeded(pending)
    /\ notified' = IF Proceeds(pending)
                   THEN StateOf(key, broken, TRUE, error, pollRate,
                                pending, active, completed)
                   ELSE notified
    /\ UNCHANGED << key, pollRate, broken, active, error, inits, lastDelay,
                    nextKey, fallbacks, epoch, stale, settles >>

\* ---------------------------------------- initializeConnection, resumed
\* The init post of setKey call c returns a body that validateInitResponse
\* accepts, carrying intervalMs iv; setKey then resolves.
initSucceeds(c, iv) ==
    /\ c \in inits
    /\ inits' = inits \ {c}
    /\ pollRate' = IF iv # <<>> /\ iv[1] > 0 THEN Clamp(iv[1]) ELSE pollRate
    /\ UNCHANGED << key, broken, pending, active, completed, processing, error,
                    rounds, timers, lastDelay, nextKey, fallbacks, epoch, stale,
                    settles >>
    /\ notified' = getState'

\* (variant: every failure of the init post is handled as the 404 is)
initFailureAllCritical(f) ==
    [ broken |-> TRUE, key |-> NoKey,
      inner |-> IF HasStatus(f, 404) THEN SessionMessage(f) ELSE error,
      error |-> IF HasStatus(f, 404) THEN MsgKeyNotFound ELSE getErrorMessage(f),
      thrown |-> IF HasStatus(f, 404) THEN MsgKeyNotFound ELSE getErrorMessage(f) ]

\* What the catch blocks of initializeConnection and setKey leave in
\* << broken, key, state.error >> and the message of the error setKey throws.
initFailure(f) ==
    IF HasStatus(f, 404)
    THEN [ broken |-> TRUE, key |-> NoKey,
           inner |-> SessionMessage(f),        \* state.error set at line 171
           error |-> MsgKeyNotFound,           \* state.error set at line 126
           thrown |-> MsgKeyNotFound ]
    ELSE [ broken |-> broken, key |-> key,
           inner |-> error,
           error |-> getErrorMessage(f),
           thrown |-> getErrorMessage(f) ]

\* The init post of setKey call c fails with f (or its body fails
\* validation); setKey then rejects.
initFails(c, f) ==
    /\ c \in inits
    /\ inits' = inits \ {c}
    /\ broken' = initFailure(f).broken
    /\ key' = initFailure(f).key
    /\ error' = initFailure(f).error
    /\ UNCHANGED << pollRate, pending, active, completed, processing, rounds,
                    timers, lastDelay, nextKey, fallbacks, epoch, stale,
                    settles >>
    /\ notified' = getState'

\* --------------------------------------------------- handleBatchResponse
\* (variant: an error result rejects every active request)
RECURSIVE applyResultsErrorRejectsAll(_, _)
applyResultsErrorRejectsAll(results, q) ==
    IF results = <<>> THEN q
    ELSE LET result == Head(results)
             k == result.requestKey
             q1 == IF k \in q.active /\ result.status = "done"
                   THEN IF result.isError
                        THEN [ active |-> {},
                               completed |-> q.completed \cup q.active,
                               settles |-> Settle(q.settles, q.active, MsgExecution) ]
                        ELSE [ active |-> q.active \ {k},
                               completed |-> q.completed \cup {k},
                               settles |-> Settle(q.settles, {k}, Resolved) ]
                   ELSE q
         IN applyResultsErrorRejectsAll(Tail(results), q1)

\* (variant: a done result is not looked up in active)
RECURSIVE applyResultsNoLookup(_, _)
applyResultsNoLookup(results, q) ==
    IF results = <<>> THEN q
    ELSE LET result == Head(results)
             k == result.requestKey
             q1 == IF result.status = "done"
                   THEN [ active |-> q.active \ {k},
                          completed |-> q.completed \cup {k},
                          settles |-> Settle(q.settles, {k},
                                       IF result.isError THEN MsgExecution ELSE Resolved) ]
                   ELSE q
         IN applyResultsNoLookup(Tail(results), q1)

\* data.results.forEach(...) on the ledger q = [active, completed, settles]
RECURSIVE applyResults(_, _)
applyResults(results, q) ==
    IF results = <<>> THEN q
    ELSE LET result == Head(results)
             k == result.requestKey
             q1 == IF k \in q.active /\ result.status = "done"
                   THEN [ active |-> q.active \ {k},
                          completed |-> q.completed \cup {k},
                          settles |-> Settle(q.settles, {k},
                                       IF result.isError THEN MsgExecution ELSE Resolved) ]
                   ELSE q
         IN applyResults(Tail(results), q1)

\* (variant: a created entry with a status other than 'pending' is skipped)
RECURSIVE applyCreatedPendingOnly(_, _, _)
applyCreatedPendingOnly(created, batchToSend, q) ==
    IF created = <<>> THEN q
    ELSE LET item == Head(created)
             k == item.requestKey
             q1 == IF k \notin batchToSend THEN q
                   ELSE IF item.status = "pending"
                        THEN [q EXCEPT !.active = @ \cup {k}]
                        ELSE q
         IN applyCreatedPendingOnly(Tail(created), batchToSend, q1)

\* (variant: a created entry is looked up in the live pending map)
RECURSIVE applyCreatedLive(_, _, _)
applyCreatedLive(created, batchToSend, q) ==
    IF created = <<>> THEN q
    ELSE LET item == Head(created)
             k == item.requestKey
             q1 == IF k \notin pending THEN q
                   ELSE IF item.status = "pending"
                        THEN [q EXCEPT !.active = @ \cup {k}]
                        ELSE [q EXCEPT !.settles = Settle(@, {k}, MsgEnqueue)]
         IN applyCreatedLive(Tail(created), batchToSend, q1)

\* data.created.forEach(...) against the snapshot batchToSend
RECURSIVE applyCreated(_, _, _)
applyCreated(created, batchToSend, q) ==
    IF created = <<>> THEN q
    ELSE LET item == Head(created)
             k == item.requestKey
             q1 == IF k \notin batchToSend THEN q
                   ELSE IF item.status = "pending"
                        THEN [q EXCEPT !.active = @ \cup {k}]
                        ELSE [q EXCEPT !.settles = Settle(@, {k}, MsgEnqueue)]
         IN applyCreated(Tail(created), batchToSend, q1)

\* (variant: the created acknowledgments are applied before the results)
handleBatchResponseCreatedFirst(data, batchToSend) ==
    applyResults(data.results,
        applyCreated(data.created, batchToSend,
            [active |-> active, completed |-> completed, settles |-> settles]))

handleBatchResponse(data, batchToSend) ==
    applyCreated(data.created, batchToSend,
        applyResults(data.results,
            [active |-> active, completed |-> completed, settles |-> settles]))

\* ------------------------------------------------------ server responses
ResultItems(ks) ==
    [requestKey : ks, status : {"done"}, isError : BOOLEAN]
        \cup [requestKey : ks, status : {"pending"}, isError : {FALSE}]

CreatedItems(ks) == [requestKey : ks, status : {"pending", "rejected"}]

\* Lists of at most n items, each requestKey named at most once.  The
\* items of a list are applied one by one and an item touches only the
\* entries of its own requestKey, so only lists with increasing requestKeys
\* are enumerated.
ListsOf(items, n) ==
    { l \in UNION { [1..m -> items] : m \in 0..n } :
        \A i \in 1..(Len(l) - 1) : l[i].requestKey < l[i + 1].requestKey }

\* The data a server may answer round rd with: results for keys the payload
\* named, and as many created acknowledgments as the payload carried calls,
\* for any keys the client has generated (so also for a call the payload
\* did not carry).
Responses(rd, ivs) ==
    [ intervalMs : ivs,
      results : ListsOf(ResultItems(rd.payload.statusRequestKeys \cup rd.payload.calls), MaxResults),
      created : ListsOf(CreatedItems(1..nextKey), Cardinality(rd.payload.calls)) ]

\* ------------------------------------------------ processBatch, resumed
\* (variant: the timer is armed with the pollRate in effect before the
\* response was reconciled)
roundSucceedsOldRate(rd, data) ==
    /\ BagIn(rd, rounds)
    /\ rounds' = rounds (-) SetToBag({rd})
    /\ pollRate' = IF data.intervalMs # <<>> THEN Clamp(data.intervalMs[1]) ELSE pollRate
    /\ LET q == handleBatchResponse(data, rd.batchToSend)
       IN /\ active' = q.active
          /\ completed' = q.completed
          /\ settles' = q.settles
          /\ IF hasWork(pending, q.active, q.completed)
             THEN timers' = timers + 1 /\ lastDelay' = pollRate
             ELSE UNCHANGED << timers, lastDelay >>
    /\ processing' = FALSE
    /\ UNCHANGED << key, broken, pending, error, inits, nextKey, fallbacks,
                    epoch, stale >>
    \* the finally block of processIfNeeded notifies last
    /\ notified' = getState'

\* The post of round rd returns a body that validation accepts as data.
roundSucceeds(rd, data) ==
    /\ BagIn(rd, rounds)
    /\ rounds' = rounds (-) SetToBag({rd})
    /\ pollRate' = IF data.intervalMs # <<>> THEN Clamp(data.intervalMs[1]) ELSE pollRate
    /\ LET q == handleBatchResponse(data, rd.batchToSend)
       IN /\ active' = q.active
          /\ completed' = q.completed
          /\ settles' = q.settles
          \* setTimeout(() => this.processIfNeeded(), this.connection.pollRate)
          /\ IF hasWork(pending, q.active, q.completed)
             THEN timers' = timers + 1 /\ lastDelay' = pollRate'
             ELSE UNCHANGED << timers, lastDelay >>
    /\ processing' = FALSE
    /\ UNCHANGED << key, broken, pending, error, inits, nextKey, fallbacks,
                    epoch, stale >>
    \* the finally block of processIfNeeded notifies last
    /\ notified' = getState'

\* ------------------------------------------------------ handleBatchError
\* (variant: every 5xx status is critical)
isCriticalAny5xx(f) ==
    HasStatus(f, 404) \/ (f.response # <<>> /\ f.response[1].status >= 500)

isCriticalError(f) == HasStatus(f, 404) \/ HasStatus(f, 500)

\* (variant: no retry is armed after a transient failure)
roundFailsNoRetry(rd, f) ==
    /\ BagIn(rd, rounds)
    /\ rounds' = rounds (-) SetToBag({rd})
    /\ LET rolledPending == pending \cup rd.batchToSend
           rolledCompleted == completed \cup rd.completedSnapshot
       IN IF isCriticalError(f)
          THEN /\ broken' = TRUE
               /\ key' = IF HasStatus(f, 404) THEN NoKey ELSE key
               /\ error' = IF HasStatus(f, 404) THEN SessionMessage(f)
                                                ELSE getErrorMessage(f)
               /\ settles' = resetSettles(rolledPending, active, settles)
               /\ pending' = {}
               /\ active' = {}
               /\ completed' = {}
               /\ UNCHANGED << timers, lastDelay >>
          ELSE /\ pending' = rolledPending
               /\ completed' = rolledCompleted
               /\ error' = getErrorMessage(f)
               /\ UNCHANGED << timers, lastDelay >>
               /\ UNCHANGED << broken, key, active, settles >>
    /\ processing' = FALSE
    /\ UNCHANGED << pollRate, inits, nextKey, fallbacks, epoch, stale >>
    /\ notified' = getState'

\* The post of round rd fails with f (or its body fails validation).
roundFails(rd, f) ==
    /\ BagIn(rd, rounds)
    /\ rounds' = rounds (-) SetToBag({rd})
    /\ LET rolledPending == pending \cup rd.batchToSend
           rolledCompleted == completed \cup rd.completedSnapshot
       IN IF isCriticalError(f)
          THEN /\ broken' = TRUE
               /\ key' = IF HasStatus(f, 404) THEN NoKey ELSE key
               /\ error' = IF HasStatus(f, 404) THEN SessionMessage(f)
                                                ELSE getErrorMessage(f)
               /\ settles' = resetSettles(rolledPending, active, settles)
               /\ pending' = {}
               /\ active' = {}
               /\ completed' = {}
               /\ UNCHANGED << timers, lastDelay >>
          ELSE /\ pending' = rolledPending
               /\ completed' = rolledCompleted
               /\ error' = getErrorMessage(f)
               \* setTimeout(..., Math.min(2000, this.connection.pollRate))
               /\ timers' = timers + 1
               /\ lastDelay' = Min(RetryCap, pollRate)
               /\ UNCHANGED << broken, key, active, settles >>
    /\ processing' = FALSE
    /\ UNCHANGED << pollRate, inits, nextKey, fallbacks, epoch, stale >>
    \* the finally block of processIfNeeded notifies last
    /\ notified' = getState'

\* ------------------------------------------------------------------ Next
\* One step of the client, the server answering with an intervalMs of ivs
\* and failing with a failure of fs.
Step(ivs, fs) ==
    \/ UNCHANGED helperVars /\ \E arg \in KeyArgs : setKey(arg)
    \/ UNCHANGED helperVars /\ executeOrFallback
    \/ UNCHANGED helperVars /\ timerFires
    \/ UNCHANGED helperVars /\ \E c \in inits, iv \in ivs : initSucceeds(c, iv)
    \/ UNCHANGED helperVars /\ \E c \in inits, f \in fs : initFails(c, f)
    \/ UNCHANGED helperVars
         /\ \E rd \in BagToSet(rounds) : \E data \in Responses(rd, ivs) : roundSucceeds(rd, data)
    \/ UNCHANGED helperVars /\ \E rd \in BagToSet(rounds), f \in fs : roundFails(rd, f)

Next == Step(NoInterval, MainFailures)

Spec == Init /\ [][Next]_vars

\* The same client against a server that also sends poll intervals and
\* fails in every way of Failures.
FullNext == Step(IntervalArgs, Failures)

FullSpec == Init /\ [][FullNext]_vars

\* The client against a server that sends no poll interval and fails in
\* every way of Failures.
FailNext == Step(NoInterval, Failures)

FailSpec == Init /\ [][FailNext]_vars

\* The client against a server that sends poll intervals outside the
\* allowed range and whose posts may time out.
PollNext == Step(ExtremeIntervals, Timeouts)

PollSpec == Init /\ [][PollNext]_vars

\* ======================================================================
\* generateRequestKey and the insertion into queues.pending, on their own
\* ======================================================================
MaxClock == 2      \* milliseconds Date.now() advances over

\* Date.now()
Clock == 0..MaxClock

\* Math.random().toString(36).slice(2, 10): up to eight base-36 digits
Randoms == { "k3x09fza", "07b" }

\* `req_${Date.now()}_${Math.random().toString(36).slice(2, 10)}`: the
\* parts of the template, in order (neither part contains "_", so two keys
\* are the same string exactly when their parts are the same)
generateRequestKey(t, rnd) == << "req_", t, "_", rnd >>

\* Map.prototype.set
MapSet(m, k, v) == [x \in (DOMAIN m) \cup {k} |-> IF x = k THEN v ELSE m[x]]

\* a millisecond passes
tick ==
    /\ clock < MaxClock
    /\ clock' = clock + 1
    /\ UNCHANGED << issued, pendingMap, body, validated, rawResult, parsedResult >>

\* executeOrFallback past its guard, while a round is in flight (so that
\* processIfNeeded returns at once and the request stays in pending): the
\* n-th request is stored under a newly generated key
submit(rnd) ==
    /\ Len(issued) < MaxOps
    /\ LET requestKey == generateRequestKey(clock, rnd)
       IN /\ issued' = Append(issued, requestKey)
          /\ pendingMap' = MapSet(pendingMap, requestKey, Len(issued) + 1)
    /\ UNCHANGED << clock, body, validated, rawResult, parsedResult >>

KeyNext ==
    \/ tick /\ UNCHANGED clientVars
    \/ UNCHANGED clientVars /\ \E rnd \in Randoms : submit(rnd)

KeySpec == Init /\ [][KeyNext]_vars

\* ======================================================================
\* JavaScript values a response carries
\* ======================================================================
\* A value is a tuple whose first element is its kind: the text of a string
\* is a sequence of characters, the items of an array a sequence of values,
\* the properties of an object a function from their names to values.
JUndefined == << "undefined" >>
JNull == << "null" >>
JBool(b) == << "boolean", b >>
JNum(n) == << "number", n >>
JStr(s) == << "string", s >>
JArr(items) == << "array", items >>
JObj(props) == << "object", props >>

\* typeof v === 'object' && v !== null
IsObject(v) == v[1] \in { "object", "array" }

\* name in v, for the property names a response uses (an array has none
\* of them)
In(name, v) == v[1] = "object" /\ name \in DOMAIN v[2]

\* !!v
Truthy(v) ==
    CASE v[1] = "boolean" -> v[2]
      [] v[1] = "number" -> v[2] # 0
      [] v[1] = "string" -> v[2] # <<>>
      [] v[1] \in { "undefined", "null" } -> FALSE
      [] OTHER -> TRUE

\* ======================================================================
\* validateInitResponse, on its own
\* ======================================================================
\* return v / throw new Error(message)
Return(v) == << "return", v >>
Throw(message) == << "throw", message >>

\* 'ok' in obj && 'data' in obj
hasOkAndData(obj) == In("ok", obj) /\ In("data", obj)

\* 'intervalMs' in obj || 'results' in obj || 'created' in obj || 'cleanupCount' in obj
hasDirectData(obj) ==
    \/ In("intervalMs", obj) \/ In("results", obj)
    \/ In("created", obj) \/ In("cleanupCount", obj)

\* (variant: the top-level fields are looked for before ok and data)
validateInitResponseDirectFirst(d) ==
    IF ~IsObject(d) THEN Throw("Invalid response structure")
    ELSE IF hasDirectData(d) THEN Return(d)
    ELSE IF hasOkAndData(d)
         THEN IF ~Truthy(d[2].ok)
              THEN Throw("Server returned error status")
              ELSE Return(d[2].data)
    ELSE Throw("Unrecognized response format")

validateInitResponse(d) ==
    IF ~IsObject(d) THEN Throw("Invalid response structure")
    ELSE IF hasOkAndData(d)
         \* if (!batchResponse.ok) throw ...; return batchResponse.data
         THEN IF ~Truthy(d[2].ok)
              THEN Throw("Server returned error status")
              ELSE Return(d[2].data)
    ELSE IF hasDirectData(d) THEN Return(d)
    ELSE Throw("Unrecognized response format")

\* the property names of the bodies tried
BodyFields == { "ok", "data", "intervalMs", "results", "created", "cleanupCount", "error" }

\* the values tried for ok and for data; every other property has one value
OkValues ==
    { JBool(TRUE), JBool(FALSE), JNum(0), JNum(1), JNull, JStr(<<>>),
      JStr(<< "n", "o" >>) }

DataValues == { JNull, JObj([intervalMs |-> JNum(1000)]) }

FieldValue(name) ==
    CASE name \in { "intervalMs", "cleanupCount" } -> JNum(1000)
      [] name = "error" -> JStr(<< "e" >>)
      [] OTHER -> JArr(<<>>)

\* response.data of a post: no body, null, a text, a number, an array, or
\* an object with any of BodyFields
Bodies ==
    { JUndefined, JNull, JStr(<<>>), JStr(<< "o", "k" >>), JNum(0), JArr(<<>>) }
        \cup { JObj([n \in names |-> IF n = "ok" THEN okValue
                                     ELSE IF n = "data" THEN dataValue
                                     ELSE FieldValue(n)]) :
                   names \in SUBSET BodyFields, okValue \in OkValues,
                   dataValue \in DataValues }

ValidateInit ==
    /\ ClientInit
    /\ body \in Bodies
    /\ validated = <<>>
    /\ clock = 0 /\ issued = <<>> /\ pendingMap = <<>>
    /\ rawResult = <<>> /\ parsedResult = <<>>

\* const serverResponse = this.validateInitResponse(response.data)
validate ==
    /\ validated = <<>>
    /\ validated' = validateInitResponse(body)
    /\ UNCHANGED << clock, issued, pendingMap, body, rawResult, parsedResult >>

ValidateNext == validate /\ UNCHANGED clientVars

ValidateSpec == ValidateInit /\ [][ValidateNext]_vars

\* ======================================================================
\* parseResult, on its own
\* ======================================================================
MaxText == 2       \* length up to which every text over ShortAlphabet is tried

\* JSON.parse, for texts whose numbers are integers and whose strings hold
\* no escape: the outcome of parsing a prefix of a text is a record of
\* whether a value was read, the value, and the characters left.
IsWs(c) == c \in { " ", "\t", "\n", "\r" }
Digits == { "0", "1", "2", "3", "4", "5", "6", "7", "8", "9" }
DigitValue(c) == CHOOSE n \in 0..9 : << "0", "1", "2", "3", "4", "5", "6", "7", "8", "9" >>[n + 1] = c

Read(v, rest) == [ok |-> TRUE, v |-> v, rest |-> rest]
SyntaxError == [ok |-> FALSE, v |-> JUndefined, rest |-> <<>>]

Drop(s, n) == SubSeq(s, n + 1, Len(s))
StartsWith(s, w) == Len(s) >= Len(w) /\ SubSeq(s, 1, Len(w)) = w

RECURSIVE SkipWs(_)
SkipWs(s) == IF s # <<>> /\ IsWs(Head(s)) THEN SkipWs(Tail(s)) ELSE s

\* the string a sequence of characters spells
RECURSIVE Text(_)
Text(cs) == IF cs = <<>> THEN "" ELSE Head(cs) \o Text(Tail(cs))

\* the digits after the first one of a number
RECURSIVE ParseDigits(_, _)
ParseDigits(s, n) ==
    IF s # <<>> /\ Head(s) \in Digits
    THEN ParseDigits(Tail(s), 10 * n + DigitValue(Head(s)))
    ELSE Read(n, s)

\* int: "0", or a digit from 1 to 9 followed by digits
ParseInt(s) ==
    IF s = <<>> \/ Head(s) \notin Digits THEN SyntaxError
    ELSE IF Head(s) = "0" THEN Read(0, Tail(s))
    ELSE ParseDigits(Tail(s), DigitValue(Head(s)))

ParseNumber(s) ==
    IF Head(s) = "-"
    THEN LET p == ParseInt(Tail(s))
         IN IF p.ok THEN Read(JNum(0 - p.v), p.rest) ELSE SyntaxError
    ELSE LET p == ParseInt(s)
         IN IF p.ok THEN Read(JNum(p.v), p.rest) ELSE SyntaxError

\* the characters of a string up to its closing quote (s starts after the
\* opening quote); a control character ends the parse
RECURSIVE ParseChars(_, _)
ParseChars(s, acc) ==
    IF s = <<>> \/ Head(s) \in { "\t", "\n", "\r" } THEN SyntaxError
    ELSE IF Head(s) = "\"" THEN Read(acc, Tail(s))
    ELSE ParseChars(Tail(s), Append(acc, Head(s)))

RECURSIVE ParseValue(_), ParseElements(_, _), ParseMembers(_, _)

\* value: s starts at the value's first character
ParseValue(s) ==
    IF s = <<>> THEN SyntaxError
    ELSE IF Head(s) = "{"
         THEN LET r == SkipWs(Tail(s))
              IN IF r # <<>> /\ Head(r) = "}" THEN Read(JObj(<<>>), Tail(r))
                 ELSE ParseMembers(r, <<>>)
    ELSE IF Head(s) = "["
         THEN LET r == SkipWs(Tail(s))
              IN IF r # <<>> /\ Head(r) = "]" THEN Read(JArr(<<>>), Tail(r))
                 ELSE ParseElements(r, <<>>)
    ELSE IF Head(s) = "\""
         THEN LET p == ParseChars(Tail(s), <<>>)
              IN IF p.ok THEN Read(JStr(p.v), p.rest) ELSE SyntaxError
    ELSE IF Head(s) = "-" \/ Head(s) \in Digits THEN ParseNumber(s)
    ELSE IF StartsWith(s, << "n", "u", "l", "l" >>) THEN Read(JNull, Drop(s, 4))
    ELSE IF StartsWith(s, << "t", "r", "u", "e" >>) THEN Read(JBool(TRUE), Drop(s, 4))
    ELSE IF StartsWith(s, << "f", "a", "l", "s", "e" >>) THEN Read(JBool(FALSE), Drop(s, 5))
    ELSE SyntaxError

\* elements: value, or value "," elements, then "]"
ParseElements(s, acc) ==
    LET p == ParseValue(SkipWs(s))
        r == SkipWs(p.rest)
    IN IF ~p.ok \/ r = <<>> THEN SyntaxError
       ELSE IF Head(r) = "," THEN ParseElements(Tail(r), Append(acc, p.v))
       ELSE IF Head(r) = "]" THEN Read(JArr(Append(acc, p.v)), Tail(r))
       ELSE SyntaxError

\* members: string ":" value, or that "," members, then "}"; a name
\* given twice keeps its last value
ParseMembers(s, acc) ==
    LET s1 == SkipWs(s)
    IN IF s1 = <<>> \/ Head(s1) # "\"" THEN SyntaxError
       ELSE LET name == ParseChars(Tail(s1), <<>>)
                s2 == SkipWs(name.rest)
            IN IF ~name.ok \/ s2 = <<>> \/ Head(s2) # ":" THEN SyntaxError
               ELSE LET p == ParseValue(SkipWs(Tail(s2)))
                        r == SkipWs(p.rest)
                        props == MapSet(acc, Text(name.v), p.v)
                    IN IF ~p.ok \/ r = <<>> THEN SyntaxError
                       ELSE IF Head(r) = "," THEN ParseMembers(Tail(r), props)
                       ELSE IF Head(r) = "}" THEN Read(JObj(props), Tail(r))
                       ELSE SyntaxError

\* JSON.parse(text): a value with blanks around it and nothing else
JSONparse(text) ==
    LET p == ParseValue(SkipWs(text))
    IN IF p.ok /\ SkipWs(p.rest) = <<>> THEN p ELSE SyntaxError

\* v.name (undefined when v has no such property)
Prop(v, name) == IF In(name, v) THEN v[2][name] ELSE JUndefined

\* (variant: the decoded value is returned as it is and an object is not
\* unwrapped, as parseResult reads in src/unnamed/part_000)
parseResultNoUnwrap(result) ==
    IF result[1] = "string"
    THEN LET parsed == JSONparse(result[2])
         IN IF parsed.ok THEN parsed.v ELSE result
    ELSE result

parseResult(result) ==
    IF result[1] = "string"
    THEN LET parsed == JSONparse(result[2])
         IN IF ~parsed.ok THEN result    \* catch { return result }
            ELSE IF /\ Truthy(parsed.v) /\ IsObject(parsed.v)
                    /\ Prop(parsed.v, "result") # JUndefined
                 THEN Prop(parsed.v, "result")
                 ELSE parsed.v
    ELSE IF Truthy(result) /\ IsObject(result)
         THEN IF Prop(result, "method") # JUndefined /\ Prop(result, "result") # JUndefined
              THEN Prop(result, "result")
              ELSE result
    ELSE result

\* the characters of the short texts, and every text of at most n of them
ShortAlphabet == { "{", "}", "[", "]", "\"", ":", ",", " ", "4", "0", "-", "n", "t" }
ShortTexts(n) == UNION { [1..m -> ShortAlphabet] : m \in 0..n }

\* longer texts a result may be
LongTexts ==
    { << "{", "\"", "r", "e", "s", "u", "l", "t", "\"", ":", "4", "2", "}" >>,
      << "{", "\"", "r", "e", "s", "u", "l", "t", "\"", ":", "n", "u", "l", "l", "}" >>,
      << "{", "\"", "r", "e", "s", "u", "l", "t", "\"", ":", "{", "\"", "r", "e", "s", "u", "l", "t", "\"", ":", "1", "}", "}" >>,
      << "{", "\"", "m", "e", "t", "h", "o", "d", "\"", ":", "\"", "m", "\"", ",", "\"", "r", "e", "s", "u", "l", "t", "\"", ":", "7", "}" >>,
      << "{", "\"", "a", "\"", ":", "1", "}" >>,
      << "[", "{", "\"", "r", "e", "s", "u", "l", "t", "\"", ":", "1", "}", "]" >>,
      << "\"", "r", "e", "s", "u", "l", "t", "\"" >>,
      << "r", "e", "s", "u", "l", "t" >>,
      << "{", "\"", "r", "e", "s", "u", "l", "t", "\"", ":", "4", "2" >>,
      << "{", " ", "\"", "r", "e", "s", "u", "l", "t", "\"", " ", ":", " ", "[", " ", "4", " ", ",", " ", "2", " ", "]", " ", "}" >>,
      << "{", "\"", "r", "e", "s", "u", "l", "t", "\"", ":", "1", ",", "\"", "r", "e", "s", "u", "l", "t", "\"", ":", "2", "}" >>,
      << "{", "\"", "r", "e", "s", "u", "l", "t", "\"", ":", "4", "2", "}", "x" >>,
      << "t", "r", "u", "e" >>,
      << "f", "a", "l", "s", "e" >>,
      << "n", "u", "l", "l" >>,
      << "-", "7" >>,
      << "0", "0", "7" >>,
      << "[", "1", ",", "]" >>,
      << "{", "\"", "r", "e", "s", "u", "l", "t", "\"", "}" >> }

Texts == ShortTexts(MaxText) \cup LongTexts

\* the properties of the objects tried, and the values tried for each
ResultFields == { "method", "result", "id" }

MethodValues == { JStr(<< "m" >>), JNull }

ResultValues ==
    { JNum(42), JNull, JObj([result |-> JNum(1)]),
      JStr(<< "{", "\"", "r", "e", "s", "u", "l", "t", "\"", ":", "4", "2", "}" >>) }

\* result.result of a server result: absent, null, a number, a boolean, an
\* array, an object with any of ResultFields, or a text
RawResults ==
    { JUndefined, JNull, JNum(0), JNum(42), JBool(TRUE), JBool(FALSE),
      JArr(<<>>), JArr(<< JNum(1) >>) }
        \cup { JObj([n \in names |-> IF n = "method" THEN methodValue
                                     ELSE IF n = "result" THEN resultValue
                                     ELSE JNum(1)]) :
                   names \in SUBSET ResultFields, methodValue \in MethodValues,
                   resultValue \in ResultValues }
        \cup { JStr(t) : t \in Texts }

ParseInit ==
    /\ ClientInit
    /\ rawResult \in RawResults
    /\ parsedResult = <<>>
    /\ clock = 0 /\ issued = <<>> /\ pendingMap = <<>>
    /\ body = <<>> /\ validated = <<>>

\* request.resolve(this.parseResult(result.result))
parse ==
    /\ parsedResult = <<>>
    /\ parsedResult' = parseResult(rawResult)
    /\ UNCHANGED << clock, issued, pendingMap, body, validated, rawResult >>

ParseNext == parse /\ UNCHANGED clientVars

ParseSpec == ParseInit /\ [][ParseNext]_vars

\* ======================================================================
\* Properties
\* ======================================================================
Generated == 1..nextKey
Settled(r) == settles[r] # <<>>
InFlight == BagToSet(rounds)
Held(r) ==
    \/ r \in pending
    \/ r \in active
    \/ \E rd \in InFlight : r \in rd.batchToSend

\* Nothing is awaiting and no timer is armed: the client does nothing more
\* unless it is called again.
Quiescent == rounds = EmptyBag /\ inits = {} /\ timers = 0

\* the step is a call of setKey / a call of executeOrFallback
SetKeyCalled == epoch' = epoch + 1
ExecuteCalled == nextKey' # nextKey \/ fallbacks' # fallbacks

\* no payload is posted by the step
NothingPosted ==
    \A rd \in BagToSet(rounds') : CopiesIn(rd, rounds') <= CopiesIn(rd, rounds)

\* C1: every request accepted into pending and not yet settled is held in
\* pending, in active, or in the sent snapshot of a round still in flight.
C1_NoRequestDropped ==
    \A r \in Generated : ~Settled(r) => Held(r)

C3_EventuallySettled ==
    Quiescent => \A r \in Generated : Settled(r)

\* C4: a setKey call rejects every earlier, unsettled request with
\* 'Connection reset', and afterwards no earlier request is in active, in
\* pending, or in a payload sent after the call.
C4_ResetRejectsAll ==
    /\ [][ SetKeyCalled =>
             \A r \in Generated : ~Settled(r) => settles'[r] = << MsgReset >> ]_vars
    /\ [](\A r \in stale :
             /\ r \notin pending \cup active
             /\ \A rd \in InFlight : rd.sentEpoch = epoch => r \notin rd.payload.calls)

\* C5 (its last clause): when the init response of a setKey call carries an
\* intervalMs, pollRate is that value clamped to [500, 10000] once the call
\* resolves.
C5_InitAdoptsInterval ==
    [][ \A c \in inits, iv \in IntervalArgs :
          (initSucceeds(c, iv) /\ iv # <<>>) => pollRate' = Clamp(iv[1]) ]_vars

\* C6: after a 404 on the init request, broken is true, the key is null,
\* setKey rejected with 'KEY_NOT_FOUND' and getLastError() is the message of
\* the 404 body (or the default text).
C6_KeyNotFound ==
    [][ \A c \in inits, f \in Failures :
          (initFails(c, f) /\ HasStatus(f, 404)) =>
              /\ broken' = TRUE
              /\ key' = NoKey
              /\ initFailure(f).thrown = MsgKeyNotFound
              /\ error' = SessionMessage(f) ]_vars

\* C7: after a 404 on the init request, pending and active are empty and
\* every request submitted since the latest setKey call has been settled.
C7_KeyNotFoundRejectsAll ==
    [][ \A c \in inits, f \in Failures :
          (initFails(c, f) /\ HasStatus(f, 404)) =>
              /\ pending' = {}
              /\ active' = {}
              /\ \A r \in Generated \ stale : settles'[r] # <<>> ]_vars

\* C8 as stated: a non-404 failure of the init request sets lastError to its
\* message, and leaves broken false and the key set.
C8_InitErrorLeavesConnected ==
    [][ \A c \in inits, f \in Failures :
          (initFails(c, f) /\ ~HasStatus(f, 404)) =>
              /\ error' = getErrorMessage(f)
              /\ broken' = FALSE
              /\ key' # NoKey ]_vars

\* C8 amended: a non-404 failure of the init request propagates to the
\* caller, sets lastError to its message, and changes neither broken nor
\* the key.
C8_InitErrorLeavesConnection ==
    [][ \A c \in inits, f \in Failures :
          (initFails(c, f) /\ ~HasStatus(f, 404)) =>
              /\ initFailure(f).thrown = getErrorMessage(f)
              /\ error' = getErrorMessage(f)
              /\ broken' = broken
              /\ key' = key ]_vars

\* the init request of the only setKey call so far failed with a timeout
C8_Witness ==
    /\ epoch = 1
    /\ inits = {}
    /\ nextKey = 0
    /\ error = "timeout exceeded"
    /\ key # NoKey
    /\ ~broken

\* C9: executeOrFallback on a broken or keyless connection invokes fallback
\* once, generates no request key, changes no queue and starts no round or
\* timer.
C9_FallbackOnly ==
    [][ ((broken \/ key = NoKey) /\ ExecuteCalled) =>
          /\ fallbacks' = fallbacks + 1
          /\ nextKey' = nextKey
          /\ NothingPosted
          /\ UNCHANGED << pending, active, completed, processing, rounds,
                          timers, settles >> ]_vars

\* fallback was invoked on a broken connection with a timer still armed
C9_Witness ==
    /\ fallbacks = 1
    /\ broken
    /\ timers > 0

\* C10: while broken, and until setKey is called, no payload is posted and
\* no request is added to pending or active.
C10_BrokenIsQuiet ==
    [][ (broken /\ ~SetKeyCalled) =>
          /\ NothingPosted
          /\ pending' \subseteq pending
          /\ active' \subseteq active ]_vars

\* ----------------------------------------------------------------------
\* C11: when a batch round fails with HTTP 404 and body {message: m}, the
\* handling of the failure leaves broken true and the key null, makes
\* getLastError() return m (the default 'Session not found. Create key
\* again.' if the body has no message), rejects every request of the sent
\* snapshot, of pending and of active with 'Connection reset', leaves all
\* three queues empty and arms no timer.
C11_BatchKeyNotFound ==
    [][ \A rd \in InFlight, f \in Failures :
          (roundFails(rd, f) /\ HasStatus(f, 404)) =>
              /\ broken'
              /\ key' = NoKey
              /\ error' = IF f.response[1].message = <<>>
                          THEN MsgSessionDefault
                          ELSE f.response[1].message[1]
              /\ \A r \in rd.batchToSend \cup pending \cup active :
                     settles'[r] = Append(settles[r], MsgReset)
              /\ pending' = {} /\ active' = {} /\ completed' = {}
              /\ timers' = timers ]_vars

\* a round has failed with 404 and body {message: "gone"}, and a request was
\* rejected by the reset
C11_Witness ==
    /\ broken
    /\ key = NoKey
    /\ error = "gone"
    /\ \E r \in Generated : settles[r] = << MsgReset >>

\* ----------------------------------------------------------------------
\* C12: when a batch round fails transiently (its status is neither 404 nor
\* 500, e.g. a timeout), the handling of the failure puts every request of
\* the sent snapshot back in pending next to the requests submitted during
\* the round, puts the snapshot's completed keys back in completed, leaves
\* active and broken as they were, sets lastError to the failure message,
\* invokes no resolve or reject, and arms exactly one timer for
\* processIfNeeded, with delay min(2000, pollRate).
C12_TransientRollback ==
    [][ \A rd \in InFlight, f \in Failures :
          (roundFails(rd, f) /\ ~HasStatus(f, 404) /\ ~HasStatus(f, 500)) =>
              /\ pending' = pending \cup rd.batchToSend
              /\ completed' = completed \cup rd.completedSnapshot
              /\ active' = active
              /\ error' = f.text
              /\ broken' = broken
              /\ settles' = settles
              /\ timers' = timers + 1
              /\ lastDelay' = IF pollRate < 2000 THEN pollRate ELSE 2000 ]_vars

\* a round has timed out while pollRate was above 2000: its call is back in
\* pending and the retry is armed with the capped delay
C12_Witness ==
    /\ error = "timeout exceeded"
    /\ ~broken
    /\ pending # {}
    /\ timers > 0
    /\ pollRate = MaxPollRate
    /\ lastDelay = 2000

\* ----------------------------------------------------------------------
\* C13: lastError is null after every successful batch round (the claim's
\* clause about rounds; it says the same of every successful setKey), so
\* that after a transient round failure followed by a successful retry
\* round getLastError() returns null and isConnected is true again.
C13_ErrorCleared ==
    [][ \A rd \in InFlight : \A data \in Responses(rd, NoInterval) :
          roundSucceeds(rd, data) => error' = NoError ]_vars

\* ----------------------------------------------------------------------
\* C14: in every reachable state 500 <= pollRate <= 10000, whatever integer
\* intervalMs (zero, negative or very large) init and batch responses carry.
C14_PollRateInRange == MinPollRate <= pollRate /\ pollRate <= MaxPollRate

\* a response carried an intervalMs above the range and pollRate is the top
\* of the range
C14_Witness == pollRate = MaxPollRate /\ pollRate # InitialPollRate

\* ----------------------------------------------------------------------
\* C15: single-flight.  In every reachable state at most one batch round is
\* in flight, and processing is true exactly when a round is in flight,
\* also when setKey is called while a round is in flight.
C15_SingleFlight ==
    /\ BagCardinality(rounds) <= 1
    /\ processing <=> rounds # EmptyBag

\* ----------------------------------------------------------------------
\* C16: ledger disjointness.  In every reachable state no requestKey is in
\* both pending and active, no key of completed is in pending or in active,
\* and in every payload sent the lists calls, statusRequestKeys and
\* completedKeys are pairwise disjoint.
C16_LedgerDisjoint ==
    /\ pending \cap active = {}
    /\ completed \cap (pending \cup active) = {}
    /\ \A rd \in InFlight :
         /\ rd.payload.calls \cap rd.payload.statusRequestKeys = {}
         /\ rd.payload.calls \cap rd.payload.completedKeys = {}
         /\ rd.payload.statusRequestKeys \cap rd.payload.completedKeys = {}

\* a payload that carries a new call next to the status poll of an active
\* request
C16_Witness ==
    \E rd \in InFlight :
        rd.payload.calls # {} /\ rd.payload.statusRequestKeys # {}

\* ----------------------------------------------------------------------
\* the post of round rd returns in this step (with a body or a failure)
RoundReturns(rd) == BagIn(rd, rounds) /\ rounds' = rounds (-) SetToBag({rd})

SizeOwed(rd) ==
    Cardinality(rd.payload.calls) + Cardinality(rd.payload.statusRequestKeys)
        + (nextKey - rd.keysBefore)

\* C18 as claimed: for every failed batch round, pending.size + active.size
\* immediately after the failure has been handled equals pending.size +
\* active.size immediately before the round began plus the number of
\* requests submitted during the round.
C18_SizeConserved ==
    [][ \A rd \in InFlight, f \in Failures :
          roundFails(rd, f) =>
              Cardinality(pending') + Cardinality(active') = SizeOwed(rd) ]_vars

\* C18, amended: the same equation for every batch round that fails
\* transiently (status neither 404 nor 500), that began while no other
\* round was in flight and during which setKey was not called.
C18_SizeConservedTransient ==
    [][ \A rd \in InFlight, f \in Failures :
          ( /\ roundFails(rd, f)
            /\ ~HasStatus(f, 404) /\ ~HasStatus(f, 500)
            /\ rd.alone /\ rd.sentEpoch = epoch ) =>
              Cardinality(pending') + Cardinality(active') = SizeOwed(rd) ]_vars

\* a round has timed out and pending holds its call next to a later one
C18_Witness ==
    /\ error = "timeout exceeded"
    /\ rounds = EmptyBag
    /\ epoch = 1
    /\ Cardinality(pending) = 2

\* ----------------------------------------------------------------------
\* C19: failure classification.  A batch round failure is handled as
\* critical (broken set, full reset, no retry) exactly when its HTTP status
\* is 404 or 500; every other failure (a timeout, another status such as
\* 502, a body that fails validation) is handled as transient: broken and
\* the key are left as they were, the queues are rolled back and a retry
\* is armed.
C19_FailureClassification ==
    [][ \A rd \in InFlight, f \in Failures :
          roundFails(rd, f) =>
              IF HasStatus(f, 404) \/ HasStatus(f, 500)
              THEN /\ broken'
                   /\ pending' = {} /\ active' = {} /\ completed' = {}
                   /\ timers' = timers
              ELSE /\ broken' = broken
                   /\ key' = key
                   /\ pending' = pending \cup rd.batchToSend
                   /\ completed' = completed \cup rd.completedSnapshot
                   /\ timers' = timers + 1 ]_vars

\* a round has failed with status 502 (the init request is still awaiting):
\* the client is not broken, has its key, has the call back in pending and
\* a retry armed
C19_Witness ==
    /\ error = "Request failed with status code 502"
    /\ epoch = 1
    /\ inits # {}
    /\ ~broken
    /\ key # NoKey
    /\ pending # {}
    /\ timers > 0

\* ----------------------------------------------------------------------
\* C20: a batch round failure with any 5xx status (500, 502, ...) is
\* handled as critical: broken is set, the key is kept, every request of
\* the sent snapshot, of pending and of active is rejected with
\* 'Connection reset', and no retry is armed.
C20_ServerErrorCritical ==
    [][ \A rd \in InFlight, f \in Failures :
          (roundFails(rd, f) /\ f.response # <<>> /\ f.response[1].status >= 500) =>
              /\ broken'
              /\ key' = key
              /\ \A r \in rd.batchToSend \cup pending \cup active :
                     settles'[r] = Append(settles[r], MsgReset)
              /\ timers' = timers ]_vars

\* ----------------------------------------------------------------------
\* the post of round rd returns a response in this step (the step is none
\* of the failures of rd)
RoundSucceeded(rd) ==
    RoundReturns(rd) /\ ~ \E f \in Failures : roundFails(rd, f)

Ledger == [active |-> active, completed |-> completed, settles |-> settles]

\* the results lists a server may answer round rd with
ResultLists(rd) ==
    ListsOf(ResultItems(rd.payload.statusRequestKeys \cup rd.payload.calls), MaxResults)

\* C22: whatever results the server gives a round in flight, for each
\* result: with status 'done' and its requestKey in active, the request is
\* settled (rejected when isError, resolved otherwise), is removed from
\* active and its key is added to completed; with status 'done' and its
\* requestKey not in active, or with another status, the result changes
\* nothing: the request is where it was and is not settled.
C22_ResultsReconciled ==
    \A rd \in InFlight : \A results \in ResultLists(rd) :
        LET q == applyResults(results, Ledger)
        IN /\ \A i \in 1..Len(results) :
                LET k == results[i].requestKey
                IN IF results[i].status = "done" /\ k \in active
                   THEN /\ q.settles[k] = Append(settles[k],
                                IF results[i].isError THEN MsgExecution ELSE Resolved)
                        /\ k \notin q.active
                        /\ k \in q.completed
                   ELSE /\ q.settles[k] = settles[k]
                        /\ k \in q.active <=> k \in active
                        /\ k \in q.completed <=> k \in completed
           /\ (\A i \in 1..Len(results) :
                  results[i].status # "done" \/ results[i].requestKey \notin active)
                => q = Ledger

\* a done result has been handled: its request is resolved, out of active,
\* and its key is in completed
C22_Witness ==
    \E r \in completed : settles[r] = << Resolved >> /\ r \notin active

Reporting(r) ==
    r \in completed \/ \E rd \in InFlight : r \in rd.completedSnapshot

\* C24: completed-key reporting.  Every payload posted carries all keys of
\* completed as completedKeys and leaves completed empty; when the round
\* succeeds its completed keys are dropped (none is in completed), when it
\* fails transiently they are back in completed, to be carried by the next
\* payload; and a key that is in no queue and no snapshot never comes back
\* into completed or into a payload's completedKeys.
C24_CompletedReported ==
    [][ /\ \A rd \in BagToSet(rounds') :
             CopiesIn(rd, rounds') > CopiesIn(rd, rounds) =>
                 /\ rd.payload.completedKeys = completed
                 /\ rd.completedSnapshot = completed
                 /\ completed' = {}
        /\ \A rd \in InFlight :
             /\ RoundSucceeded(rd) => rd.completedSnapshot \cap completed' = {}
             /\ \A f \in Failures :
                  (roundFails(rd, f) /\ ~HasStatus(f, 404) /\ ~HasStatus(f, 500))
                      => rd.completedSnapshot \subseteq completed'
        /\ \A r \in Generated :
             (~Held(r) /\ ~Reporting(r)) => (~Held(r) /\ ~Reporting(r))'
      ]_vars

\* the key of a delivered result is in the payload of the round in flight
\* and the live completed set has been cleared
C24_Witness ==
    /\ completed = {}
    /\ \E rd \in InFlight : \E r \in rd.payload.completedKeys :
          Settled(r) /\ r \in rd.completedSnapshot

\* ----------------------------------------------------------------------
\* C25: handling a done result with isError true whose request is in
\* active rejects that request only: every other request is settled no
\* further and is in active and in completed exactly as before; and the
\* round the result arrives in leaves key, broken, lastError and the live
\* pending map as they were (and pollRate, the response carrying no
\* intervalMs).
C25_ErrorResultIsLocal ==
    /\ [] \A rd \in InFlight :
            \A item \in ResultItems(rd.payload.statusRequestKeys \cup rd.payload.calls) :
              (item.status = "done" /\ item.isError /\ item.requestKey \in active) =>
                  LET q == applyResults(<< item >>, Ledger)
                      k == item.requestKey
                  IN /\ q.settles[k] = Append(settles[k], MsgExecution)
                     /\ \A r \in Reqs \ {k} :
                           /\ q.settles[r] = settles[r]
                           /\ r \in q.active <=> r \in active
                           /\ r \in q.completed <=> r \in completed
    /\ [][ \A rd \in InFlight :
             RoundSucceeded(rd) =>
                 /\ key' = key
                 /\ broken' = broken
                 /\ error' = error
                 /\ pollRate' = pollRate
                 /\ pending' = pending ]_vars

\* one request was rejected by an error result while another is active,
\* unsettled, and the connection is as it was
C25_Witness ==
    /\ ~broken /\ key # NoKey /\ error = NoError
    /\ \E r \in completed : settles[r] = << MsgExecution >>
    /\ \E r \in active : settles[r] = <<>>

\* ----------------------------------------------------------------------
\* v clamped to [500, 10000], written out
Clamped(v) == IF v < 500 THEN 500 ELSE IF v > 10000 THEN 10000 ELSE v

\* C26: after an init response or a batch response that carries intervalMs
\* v, pollRate equals v clamped to [500, 10000]: 500 for v = 0 and for
\* negative v, 10000 for v = 50000.
C26_PollRateClamped ==
    [][ /\ \A c \in inits, iv \in ExtremeIntervals :
             (iv # <<>> /\ initSucceeds(c, iv)) => pollRate' = Clamped(iv[1])
        /\ \A rd \in InFlight : \A data \in Responses(rd, ExtremeIntervals) :
             (data.intervalMs # <<>> /\ roundSucceeds(rd, data))
                 => pollRate' = Clamped(data.intervalMs[1]) ]_vars

\* ----------------------------------------------------------------------
\* C27: the timer a successful round arms has as its delay the pollRate in
\* effect after the round's response has been reconciled: the new, clamped
\* value when the response carries an intervalMs, not the value in effect
\* when the round was sent.
C27_RearmUsesNewRate ==
    [][ \A rd \in InFlight :
          (RoundSucceeded(rd) /\ timers' = timers + 1) => lastDelay' = pollRate' ]_vars

\* a batch response (the init request is still awaiting) has raised
\* pollRate to the top of the range and the timer armed last has that delay
C27_Witness ==
    /\ epoch = 1 /\ inits # {}
    /\ pollRate = MaxPollRate
    /\ timers > 0
    /\ lastDelay = MaxPollRate

\* ----------------------------------------------------------------------
\* C28: state notification.  Whenever the client is awaiting a post or is
\* idle (every state of this model), the state last delivered to a
\* subscribed listener equals getState().
C28_ListenersCurrent == notified = getState

\* ----------------------------------------------------------------------
\* C29: when the post of a batch round that was started before the latest
\* setKey call returns (with a response, a transient failure, or a 404 or
\* 500), key, broken and lastError keep their values and none of the
\* round's requests is put into pending or active.
C29_OldRoundIsFenced ==
    [][ \A rd \in InFlight :
          (RoundReturns(rd) /\ rd.sentEpoch < epoch) =>
              /\ key' = key
              /\ broken' = broken
              /\ error' = error
              /\ rd.batchToSend \cap (pending' \cup active') = {} ]_vars

\* ----------------------------------------------------------------------
\* C30: overlapping setKey calls.  When the init request of a setKey call
\* that is not the latest returns (with a response or with any failure),
\* key, broken and lastError keep their values; so when the init request of
\* the latest setKey call returns a response, the key is the key of that
\* call and the connection is not broken.
C30_LatestSetKeyWins ==
    [][ \A c \in inits :
          /\ (c.call < epoch /\ inits' = inits \ {c}) =>
                 /\ key' = key
                 /\ broken' = broken
                 /\ error' = error
          /\ (c.call = epoch /\ \E iv \in IntervalArgs \cup ExtremeIntervals : initSucceeds(c, iv)) =>
                 /\ key' = c.key
                 /\ ~broken' ]_vars

\* ----------------------------------------------------------------------
\* C31: no request is stranded on a dead connection.  In every reachable
\* state in which the connection is broken or has no key, and no setKey
\* call is awaiting its init request, pending and active are empty.
C31_NoneStranded ==
    ((broken \/ key = NoKey) /\ inits = {}) => (pending = {} /\ active = {})

C33_OneTimer == timers <= 1

\* ----------------------------------------------------------------------
\* C34: within one response the results are applied before the created
\* acknowledgments.  Whatever response a round in flight is given, if it
\* carries a done result and a 'pending' created acknowledgment for the
\* same requestKey of the sent snapshot, the result is ignored: the request
\* is in active afterwards, its key is not in completed and the response
\* does not settle it.  A result settles a request only if the request was
\* in active before the response that carries the result was handled, that
\* is, in a round later than the one that acknowledged it.
C34_ResultsBeforeCreated ==
    /\ [] \A rd \in InFlight : \A data \in Responses(rd, NoInterval) :
            LET q == handleBatchResponse(data, rd.batchToSend)
            IN \A i \in 1..Len(data.results) : \A j \in 1..Len(data.created) :
                 LET k == data.results[i].requestKey
                 IN ( /\ data.created[j].requestKey = k
                      /\ data.results[i].status = "done"
                      /\ data.created[j].status = "pending"
                      /\ k \in rd.batchToSend )
                        => /\ k \in q.active
                           /\ k \notin q.completed
                           /\ q.settles[k] = settles[k]
    /\ [][ \A k \in Reqs :
             ( /\ settles'[k] # settles[k]
               /\ settles'[k][Len(settles'[k])] \in { Resolved, MsgExecution } )
                 => k \in active ]_vars

\* one request has been acknowledged and then resolved by the result of a
\* later round, whose response also acknowledged a second request: that one
\* is in active, unsettled
C34_Witness ==
    /\ rounds = EmptyBag
    /\ \E a \in completed : settles[a] = << Resolved >>
    /\ \E b \in active : settles[b] = <<>> /\ b \notin completed

\* ----------------------------------------------------------------------
\* C35: requestKey values are unique: no two requests that are live at the
\* same time share a requestKey, so inserting a new request into pending
\* never overwrites an existing one (every submitted request is stored in
\* the pending map under its own key).
C35_KeysUnique ==
    /\ \A i, j \in 1..Len(issued) : i # j => issued[i] # issued[j]
    /\ \A i \in 1..Len(issued) :
          issued[i] \in DOMAIN pendingMap /\ pendingMap[issued[i]] = i

\* ----------------------------------------------------------------------
\* C36, as stated: a body is accepted if and only if it is an object that
\* has both ok and data with ok not false (the call yields data) or has at
\* least one of intervalMs, results, created, cleanupCount at top level
\* (the call yields the body); a body with ok false and data fails, and
\* every other body fails with 'Unrecognized response format'.
C36_AsStated ==
    validated # <<>> =>
        LET okAndData == hasOkAndData(body) /\ body[2].ok # JBool(FALSE)
            accepted == IsObject(body) /\ (okAndData \/ hasDirectData(body))
        IN /\ validated[1] = "return" <=> accepted
           /\ okAndData => validated = Return(body[2].data)
           /\ (accepted /\ ~okAndData) => validated = Return(body)
           /\ (~accepted /\ ~hasOkAndData(body))
                 => validated = Throw("Unrecognized response format")

\* the values !v is true of
Falsy == { JBool(FALSE), JNum(0), JStr(<<>>), JNull, JUndefined }

\* C36: a body that is not an object, or is null, fails with 'Invalid
\* response structure'.  An object with both ok and data is settled by ok
\* alone, whatever else it carries: with ok false, 0, '' or null it fails
\* with 'Server returned error status', with any other ok the call yields
\* data.  An object lacking ok or data is accepted, the call yielding the
\* body itself, if and only if it has at least one of intervalMs, results,
\* created, cleanupCount at top level; otherwise it fails with
\* 'Unrecognized response format'.
C36_EnvelopeValidated ==
    validated # <<>> =>
        IF body[1] \notin { "object", "array" }
        THEN validated = Throw("Invalid response structure")
        ELSE IF In("ok", body) /\ In("data", body)
        THEN IF body[2].ok \in Falsy
             THEN validated = Throw("Server returned error status")
             ELSE validated = Return(body[2].data)
        ELSE IF \E name \in { "intervalMs", "results", "created", "cleanupCount" } :
                    In(name, body)
        THEN validated = Return(body)
        ELSE validated = Throw("Unrecognized response format")

\* a body with ok 0, data and a top-level intervalMs has been refused
C36_Witness ==
    /\ In("ok", body) /\ In("data", body) /\ In("intervalMs", body)
    /\ body[2].ok = JNum(0)
    /\ validated = Throw("Server returned error status")

\* ----------------------------------------------------------------------
\* the text {"result":42}
WrappedFortyTwo ==
    << "{", "\"", "r", "e", "s", "u", "l", "t", "\"", ":", "4", "2", "}" >>

====
